---- MODULE Spec2Model ----
(***************************************************************************)
(* A model of the gRPC codec of unistack-org/micro-codec-grpc.             *)
(*                                                                         *)
(*   frame codec      src/grpc.go       decode, encode (lines 280-339)     *)
(*   codec facade     src/unnamed/part_000   ReadHeader, Unmarshal,        *)
(*                    Marshal, ReadBody, Write, NewCodec                   *)
(*                                                                         *)
(* src/grpc.go lines 1-264 hold an earlier variant of the facade, written  *)
(* against the old protobuf API; its ReadHeader and the header part of its *)
(* Write are the same code.  The model follows the variant of part_000,    *)
(* the one with codec options, whose Write and ReadBody call Marshal and   *)
(* Unmarshal.                                                              *)
(*                                                                         *)
(* Five specifications share the variables: SpecFrame (decode, encode and  *)
(* ReadBody on a stream a peer also writes to), SpecHeader (ReadHeader on  *)
(* every path), Spec (the five methods of the facade on one codec and one  *)
(* message), SpecSession (one codec handed one message after another) and  *)
(* SpecRace (two goroutines calling without coordination).                 *)
(*                                                                         *)
(* Bytes are naturals 0..255, byte slices are sequences of bytes (a nil    *)
(* slice and an empty slice are both << >>).  Routing strings (paths,      *)
(* targets, endpoints) are sequences of one-character strings so that      *)
(* strings.Split, strings.Join and fmt.Sprintf are computed; the other     *)
(* header values are atomic strings, "" standing for an absent key (Go's   *)
(* map read of an absent key).  An error value is its text, NoErr is nil.  *)
(***************************************************************************)
EXTENDS Integers, Sequences, FiniteSets, TLC

VARIABLES
    ContentType,  \* grpcCodec.ContentType, the one mutable field of the codec
    conn,         \* the byte stream: bytes written and not yet read
    reader,       \* how conn's Read delivers bytes: "buffer" or "split"
    msg,          \* the caller's codec.Message, which the codec changes in place
    call,         \* the last call made on the codec: operation, inputs, results
    callers       \* two goroutines that call without coordination (SpecRace);
                  \* NoCallers where one caller makes all the calls

vars == <<ContentType, conn, reader, msg, call, callers>>

\* one caller makes all the calls
NoCallers == << >>

-----------------------------------------------------------------------------
(* Bounds of the model *)

\* codec.DefaultMaxMsgSize is 4 MiB in the micro/v3 codec package; the model
\* scales it down so that frames on both sides of the limit are enumerated.
DefaultMaxMsgSize == 2

\* longest payload a caller or a peer puts in one frame: one byte past the limit
MaxLen == DefaultMaxMsgSize + 1

\* room of the stream: the longest frame the model builds
MaxConn == 5 + MaxLen

-----------------------------------------------------------------------------
(* Errors *)

NoErr == "<nil>"
EOF == "EOF"
ErrUnexpectedEOF == "unexpected EOF"
ErrTooLargeMachine == "grpc: received message larger than max length allowed on current machine"
ErrTooLarge == "grpc: received message larger than max"
ErrUnknownPath == "Unknown request path"
ErrInvalidMessage == "invalid message"
ErrUnknownContentType == "unknown content-type"
ErrEncoder == "encoder: cannot encode value"
ErrDecoder == "decoder: cannot decode bytes"
Panic == "panic: index out of range"

-----------------------------------------------------------------------------
(* Byte sequences *)

Min(a, b) == IF a <= b THEN a ELSE b

Take(s, n) == SubSeq(s, 1, Min(n, Len(s)))

Drop(s, n) == SubSeq(s, Min(n, Len(s)) + 1, Len(s))

\* all sequences over S of length 0..n
RECURSIVE SeqsUpTo(_, _)
SeqsUpTo(S, n) ==
    IF n = 0 THEN {<< >>}
    ELSE LET shorter == SeqsUpTo(S, n - 1)
         IN  shorter \cup {Append(s, x) : s \in {t \in shorter : Len(t) = n - 1}, x \in S}

\* binary.BigEndian.Uint32(b) of a 4-byte slice
Uint32(b) == ((b[1] * 256 + b[2]) * 256 + b[3]) * 256 + b[4]

\* binary.BigEndian.PutUint32(b, n): the 4 bytes written
PutUint32(n) ==
    << (n \div 16777216) % 256, (n \div 65536) % 256, (n \div 256) % 256, n % 256 >>

\* maxInt = int(^uint(0) >> 1) of a build whose int has 32 bits
maxInt == 2147483647

-----------------------------------------------------------------------------
(* io.Reader: one Read(p) call on the stream s with len(p) = want *)

\* The outcomes [n, err] one Read may have.  A "buffer" (bytes.Buffer,
\* bytes.Reader) delivers min(len(p), available); a "split" reader (a network
\* connection) may deliver any non-empty part of that.  Both report io.EOF,
\* with n = 0, once the stream is exhausted.
Read(s, want, kind) ==
    IF Len(s) = 0 THEN {[n |-> 0, err |-> EOF]}
    ELSE IF kind = "buffer" THEN {[n |-> Min(want, Len(s)), err |-> NoErr]}
    ELSE {[n |-> k, err |-> NoErr] : k \in 1..Min(want, Len(s))}

\* a slice made by make([]byte, size) after Read put the first n bytes of s in it
Filled(s, n, size) == SubSeq(s, 1, n) \o [i \in 1..(size - n) |-> 0]

-----------------------------------------------------------------------------
(* Frame codec *)

\* decodeBody with the check against the configured maximum left out
decodeBodyNoLimit(header, rest, kind) ==
    LET cf == header[1]
        length == Uint32(SubSeq(header, 2, 5))
    IN  IF length = 0
        THEN {[cf |-> cf, msg |-> << >>, err |-> NoErr, rest |-> rest]}
        ELSE IF length > maxInt
        THEN {[cf |-> cf, msg |-> << >>, err |-> ErrTooLargeMachine, rest |-> rest]}
        ELSE { IF r.err # NoErr
               THEN [cf |-> cf, msg |-> << >>,
                     err |-> IF r.err = EOF THEN ErrUnexpectedEOF ELSE r.err,
                     rest |-> Drop(rest, r.n)]
               ELSE [cf |-> cf, msg |-> Filled(rest, r.n, Min(length, MaxLen + 1)),
                     err |-> NoErr, rest |-> Drop(rest, r.n)]
             : r \in Read(rest, Min(length, MaxLen + 1), kind) }

\* second half of decode: the header slice is filled, rest is the unread stream
decodeBody(header, rest, kind) ==
    LET cf == header[1]
        length == Uint32(SubSeq(header, 2, 5))
    IN  IF length = 0
        THEN {[cf |-> cf, msg |-> << >>, err |-> NoErr, rest |-> rest]}
        ELSE IF length > maxInt
        THEN {[cf |-> cf, msg |-> << >>, err |-> ErrTooLargeMachine, rest |-> rest]}
        ELSE IF length > DefaultMaxMsgSize
        THEN {[cf |-> cf, msg |-> << >>, err |-> ErrTooLarge, rest |-> rest]}
        ELSE { IF r.err # NoErr
               THEN [cf |-> cf, msg |-> << >>,
                     err |-> IF r.err = EOF THEN ErrUnexpectedEOF ELSE r.err,
                     rest |-> Drop(rest, r.n)]
               ELSE [cf |-> cf, msg |-> Filled(rest, r.n, length), err |-> NoErr,
                     rest |-> Drop(rest, r.n)]
             : r \in Read(rest, length, kind) }

\* decode that surfaces the io.EOF of an exhausted stream as an error
decodeEOFIsError(s, kind) ==
    UNION { IF r.err # NoErr
            THEN {[cf |-> 0, msg |-> << >>, err |-> r.err, rest |-> Drop(s, r.n)]}
            ELSE decodeBody(Filled(s, r.n, 5), Drop(s, r.n), kind)
          : r \in Read(s, 5, kind) }

\* decode(r): the set of results [cf, msg, err, rest] the reader's behaviour
\* allows, rest being what is left unread in the stream
decode(s, kind) ==
    UNION { IF r.err # NoErr
            THEN IF r.err = EOF /\ r.n = 0
                 THEN {[cf |-> 0, msg |-> << >>, err |-> NoErr, rest |-> Drop(s, r.n)]}
                 ELSE {[cf |-> 0, msg |-> << >>, err |-> r.err, rest |-> Drop(s, r.n)]}
            ELSE decodeBody(Filled(s, r.n, 5), Drop(s, r.n), kind)
          : r \in Read(s, 5, kind) }

\* encode that writes the length before the compression flag
encodeLengthFirst(cf, buf) == PutUint32(Len(buf)) \o <<cf>> \o buf

\* encode(cf, buf, w): the bytes the two w.Write calls put on the stream
encode(cf, buf) == <<cf>> \o PutUint32(Len(buf)) \o buf

-----------------------------------------------------------------------------
(* Strings as sequences of characters *)

\* index of the first sep in s, 0 when s holds none
RECURSIVE IndexFrom(_, _, _)
IndexFrom(s, sep, i) ==
    IF i > Len(s) THEN 0
    ELSE IF s[i] = sep THEN i
    ELSE IndexFrom(s, sep, i + 1)

\* strings.Split(s, sep) for a one-character sep
RECURSIVE Split(_, _)
Split(s, sep) ==
    LET i == IndexFrom(s, sep, 1)
    IN  IF i = 0 THEN <<s>>
        ELSE <<SubSeq(s, 1, i - 1)>> \o Split(SubSeq(s, i + 1, Len(s)), sep)

\* strings.Join(parts, sep)
RECURSIVE Join(_, _)
Join(parts, sep) ==
    IF Len(parts) = 0 THEN << >>
    ELSE IF Len(parts) = 1 THEN parts[1]
    ELSE parts[1] \o <<sep>> \o Join(Tail(parts), sep)

\* fmt.Sprintf("/%s.%s/%s", a, b, c)
SprintfPath(a, b, c) == <<"/">> \o a \o <<".">> \o b \o <<"/">> \o c

-----------------------------------------------------------------------------
(* codec.Message *)

\* header keys whose values are routing strings (sequences of characters)
RouteKeys == {":path", ":authority", "Micro-Service", "Micro-Endpoint"}

\* header keys whose values are atomic strings
PlainKeys ==
    {"content-type", ":method", ":proto", "te", "user-agent", "Trailer",
     ":status", "grpc-status", "grpc-message"}

HeaderKeys == RouteKeys \cup PlainKeys

\* a header map with no entries
NoHeader == [k \in HeaderKeys |-> IF k \in RouteKeys THEN << >> ELSE ""]

\* m.Header[k] = val
SetHeader(m, k, val) == [m EXCEPT !.Header[k] = val]

-----------------------------------------------------------------------------
(* Header translator: ReadHeader *)

\* ReadHeader that takes the first component of the service for the endpoint
\* and the rest for the target
ReadHeaderFirstComponent(ct0, m) ==
    LET hct == m.Header["content-type"]
        ct == IF hct # "" THEN hct ELSE ct0
        path == m.Header[":path"]
    IN  IF Len(path) = 0 \/ path[1] # "/"
        THEN [m |-> [m EXCEPT !.Target = m.Header["Micro-Service"],
                              !.Endpoint = m.Header["Micro-Endpoint"]],
              ct |-> ct, err |-> NoErr]
        ELSE LET parts == Split(path, "/")
             IN  IF Len(parts) # 3
                 THEN [m |-> m, ct |-> ct, err |-> ErrUnknownPath]
                 ELSE LET service == Split(parts[2], ".")
                      IN  [m |-> [m EXCEPT
                                    !.Endpoint = Join(<<service[1], parts[3]>>, "."),
                                    !.Target = Join(Tail(service), ".")],
                           ct |-> ct, err |-> NoErr]

\* ReadHeader that refuses only paths of fewer than three segments
ReadHeaderAtLeastThree(ct0, m) ==
    LET hct == m.Header["content-type"]
        ct == IF hct # "" THEN hct ELSE ct0
        path == m.Header[":path"]
    IN  IF Len(path) = 0 \/ path[1] # "/"
        THEN [m |-> [m EXCEPT !.Target = m.Header["Micro-Service"],
                              !.Endpoint = m.Header["Micro-Endpoint"]],
              ct |-> ct, err |-> NoErr]
        ELSE LET parts == Split(path, "/")
             IN  IF Len(parts) < 3
                 THEN [m |-> m, ct |-> ct, err |-> ErrUnknownPath]
                 ELSE LET service == Split(parts[2], ".")
                      IN  [m |-> [m EXCEPT
                                    !.Endpoint = Join(<<service[Len(service)], parts[3]>>, "."),
                                    !.Target = Join(SubSeq(service, 1, Len(service) - 1), ".")],
                           ct |-> ct, err |-> NoErr]

\* ReadHeader that joins the labels of the target without the dots
ReadHeaderTargetUndotted(ct0, m) ==
    LET hct == m.Header["content-type"]
        ct == IF hct # "" THEN hct ELSE ct0
        path == m.Header[":path"]
    IN  IF Len(path) = 0 \/ path[1] # "/"
        THEN [m |-> [m EXCEPT !.Target = m.Header["Micro-Service"],
                              !.Endpoint = m.Header["Micro-Endpoint"]],
              ct |-> ct, err |-> NoErr]
        ELSE LET parts == Split(path, "/")
             IN  IF Len(parts) # 3
                 THEN [m |-> m, ct |-> ct, err |-> ErrUnknownPath]
                 ELSE LET service == Split(parts[2], ".")
                      IN  [m |-> [m EXCEPT
                                    !.Endpoint = Join(<<service[Len(service)], parts[3]>>, "."),
                                    !.Target = Join(SubSeq(service, 1, Len(service) - 1), << >>)],
                           ct |-> ct, err |-> NoErr]

\* ReadHeader that never assigns c.ContentType
ReadHeaderKeepsContentType(ct0, m) ==
    LET path == m.Header[":path"]
    IN  IF Len(path) = 0 \/ path[1] # "/"
        THEN [m |-> [m EXCEPT !.Target = m.Header["Micro-Service"],
                              !.Endpoint = m.Header["Micro-Endpoint"]],
              ct |-> ct0, err |-> NoErr]
        ELSE LET parts == Split(path, "/")
             IN  IF Len(parts) # 3
                 THEN [m |-> m, ct |-> ct0, err |-> ErrUnknownPath]
                 ELSE LET service == Split(parts[2], ".")
                      IN  [m |-> [m EXCEPT
                                    !.Endpoint = Join(<<service[Len(service)], parts[3]>>, "."),
                                    !.Target = Join(SubSeq(service, 1, Len(service) - 1), ".")],
                           ct |-> ct0, err |-> NoErr]

\* ReadHeader that takes over the content-type only when the path is accepted
ReadHeaderRefreshOnSuccess(ct0, m) ==
    LET hct == m.Header["content-type"]
        ct == IF hct # "" THEN hct ELSE ct0
        path == m.Header[":path"]
    IN  IF Len(path) = 0 \/ path[1] # "/"
        THEN [m |-> [m EXCEPT !.Target = m.Header["Micro-Service"],
                              !.Endpoint = m.Header["Micro-Endpoint"]],
              ct |-> ct, err |-> NoErr]
        ELSE LET parts == Split(path, "/")
             IN  IF Len(parts) # 3
                 THEN [m |-> m, ct |-> ct0, err |-> ErrUnknownPath]
                 ELSE LET service == Split(parts[2], ".")
                      IN  [m |-> [m EXCEPT
                                    !.Endpoint = Join(<<service[Len(service)], parts[3]>>, "."),
                                    !.Target = Join(SubSeq(service, 1, Len(service) - 1), ".")],
                           ct |-> ct, err |-> NoErr]

\* ReadHeader(conn, m, t): [m, ct, err], the message and the codec's
\* content-type after the call, and the error returned
ReadHeader(ct0, m) ==
    LET hct == m.Header["content-type"]
        ct == IF hct # "" THEN hct ELSE ct0
        path == m.Header[":path"]
    IN  IF Len(path) = 0 \/ path[1] # "/"
        THEN [m |-> [m EXCEPT !.Target = m.Header["Micro-Service"],
                              !.Endpoint = m.Header["Micro-Endpoint"]],
              ct |-> ct, err |-> NoErr]
        ELSE LET parts == Split(path, "/")
             IN  IF Len(parts) # 3
                 THEN [m |-> m, ct |-> ct, err |-> ErrUnknownPath]
                 ELSE LET service == Split(parts[2], ".")
                      IN  [m |-> [m EXCEPT
                                    !.Endpoint = Join(<<service[Len(service)], parts[3]>>, "."),
                                    !.Target = Join(SubSeq(service, 1, Len(service) - 1), ".")],
                           ct |-> ct, err |-> NoErr]

-----------------------------------------------------------------------------
(* Values handed to the codec (interface{}) *)

\* a nil interface value
NilValue == [kind |-> "nil"]

\* a *codec.Frame holding Data
Frame(d) == [kind |-> "frame", Data |-> d]

\* a proto.Message with content x; ok is whether the protobuf encoders accept it
ProtoMsg(x, ok) == [kind |-> "proto", val |-> x, ok |-> ok]

\* any other Go value with content x; ok is whether encoding/json accepts it
Other(x, ok) == [kind |-> "other", val |-> x, ok |-> ok]

\* a struct with a field tagged "flatten" that holds inner
Struct(inner) == [kind |-> "struct", flatten |-> inner]

\* rutil.StructFieldByTag(v, options.TagName, flattenTag): the value the codec
\* goes on with (the tagged field when there is one, v itself otherwise)
StructFieldByTag(v) == IF v.kind = "struct" THEN v.flatten ELSE v

\* the value v after its flatten field, or itself, became nv
Unflatten(v, nv) == IF v.kind = "struct" THEN Struct(nv) ELSE nv

-----------------------------------------------------------------------------
(* The encoders and decoders the codec calls (external packages) *)

\* The encoders are opaque to the codec: the model gives each an encoding of
\* its own (JSON text opens with '{', byte 123, and protojson closes with '}',
\* byte 125), so that the bytes show which encoder produced them.

\* proto.Marshal: the zero message encodes to no bytes
protoMarshal(v) ==
    IF ~v.ok THEN [buf |-> << >>, err |-> ErrEncoder, enc |-> "proto"]
    ELSE [buf |-> IF v.val = 0 THEN << >> ELSE <<v.val>>, err |-> NoErr, enc |-> "proto"]

\* marshalOptions.Marshal (protojson)
jsonpbMarshal(v) ==
    IF ~v.ok THEN [buf |-> << >>, err |-> ErrEncoder, enc |-> "jsonpb"]
    ELSE [buf |-> <<123, v.val, 125>>, err |-> NoErr, enc |-> "jsonpb"]

\* json.Marshal
jsonMarshal(v) ==
    IF ~v.ok THEN [buf |-> << >>, err |-> ErrEncoder, enc |-> "json"]
    ELSE [buf |-> <<123, v.val>>, err |-> NoErr, enc |-> "json"]

\* proto.Unmarshal(d, v): resets v, then fills it from d
protoUnmarshal(d, v) ==
    IF Len(d) = 1 /\ d[1] # 0
    THEN [v |-> [v EXCEPT !.val = d[1]], err |-> NoErr, dec |-> "proto"]
    ELSE [v |-> [v EXCEPT !.val = 0], err |-> ErrDecoder, dec |-> "proto"]

\* unmarshalOptions.Unmarshal (protojson)
jsonpbUnmarshal(d, v) ==
    IF Len(d) = 3 /\ d[1] = 123 /\ d[3] = 125
    THEN [v |-> [v EXCEPT !.val = d[2]], err |-> NoErr, dec |-> "jsonpb"]
    ELSE [v |-> v, err |-> ErrDecoder, dec |-> "jsonpb"]

\* json.Unmarshal(d, v)
jsonUnmarshal(d, v) ==
    IF Len(d) = 2 /\ d[1] = 123
    THEN [v |-> [v EXCEPT !.val = d[2]], err |-> NoErr, dec |-> "json"]
    ELSE [v |-> v, err |-> ErrDecoder, dec |-> "json"]

-----------------------------------------------------------------------------
(* Content marshaler *)

\* Marshal that encodes in protobuf binary under every content-type it does
\* not know
MarshalDefaultProto(ct, v0) ==
    IF v0.kind = "nil" THEN [buf |-> << >>, err |-> NoErr, enc |-> "none"]
    ELSE LET v == StructFieldByTag(v0)
         IN  IF v.kind = "frame" THEN [buf |-> v.Data, err |-> NoErr, enc |-> "none"]
             ELSE IF ct = "application/grpc+json" THEN jsonMarshal(v)
             ELSE IF v.kind # "proto"
             THEN [buf |-> << >>, err |-> ErrInvalidMessage, enc |-> "none"]
             ELSE protoMarshal(v)

\* Marshal(v): [buf, err, enc]; enc names the encoder that ran ("none" when
\* the codec returned before calling one)
Marshal(ct, v0) ==
    IF v0.kind = "nil" THEN [buf |-> << >>, err |-> NoErr, enc |-> "none"]
    ELSE LET v == StructFieldByTag(v0)
         IN  IF v.kind = "frame" THEN [buf |-> v.Data, err |-> NoErr, enc |-> "none"]
             ELSE IF ct = "application/grpc+json" THEN jsonMarshal(v)
             ELSE IF v.kind # "proto"
             THEN [buf |-> << >>, err |-> ErrInvalidMessage, enc |-> "none"]
             ELSE IF ct = "application/grpc+json" THEN jsonpbMarshal(v)
             ELSE IF ct \in {"application/grpc+proto", "application/grpc"}
             THEN protoMarshal(v)
             ELSE [buf |-> << >>, err |-> ErrUnknownContentType, enc |-> "none"]

\* Unmarshal that fills a Frame only under a content-type it knows
UnmarshalFrameRecognizedOnly(ct, d, v0) ==
    IF v0.kind = "nil" \/ Len(d) = 0 THEN [v |-> v0, err |-> NoErr, dec |-> "none"]
    ELSE LET v == StructFieldByTag(v0)
             r == IF ct = "application/grpc+json" /\ v.kind # "frame"
                  THEN jsonUnmarshal(d, v)
                  ELSE IF v.kind \notin {"proto", "frame"}
                  THEN [v |-> v, err |-> ErrInvalidMessage, dec |-> "none"]
                  ELSE IF ct \notin {"application/grpc+proto", "application/grpc",
                                     "application/grpc+json"}
                  THEN [v |-> v, err |-> ErrInvalidMessage, dec |-> "none"]
                  ELSE IF v.kind = "frame"
                  THEN [v |-> [v EXCEPT !.Data = d], err |-> NoErr, dec |-> "none"]
                  ELSE protoUnmarshal(d, v)
         IN  [r EXCEPT !.v = Unflatten(v0, r.v)]

\* Unmarshal(d, v): [v, err, dec]; v is the target after the call
Unmarshal(ct, d, v0) ==
    IF v0.kind = "nil" \/ Len(d) = 0 THEN [v |-> v0, err |-> NoErr, dec |-> "none"]
    ELSE LET v == StructFieldByTag(v0)
             r == IF v.kind = "frame"
                  THEN [v |-> [v EXCEPT !.Data = d], err |-> NoErr, dec |-> "none"]
                  ELSE IF ct = "application/grpc+json" THEN jsonUnmarshal(d, v)
                  ELSE IF v.kind # "proto"
                  THEN [v |-> v, err |-> ErrInvalidMessage, dec |-> "none"]
                  ELSE IF ct = "application/grpc+json" THEN jsonpbUnmarshal(d, v)
                  ELSE IF ct \in {"application/grpc+proto", "application/grpc"}
                  THEN protoUnmarshal(d, v)
                  ELSE [v |-> v, err |-> ErrInvalidMessage, dec |-> "none"]
         IN  [r EXCEPT !.v = Unflatten(v0, r.v)]

-----------------------------------------------------------------------------
(* Codec facade *)

\* ReadBody(conn, v): the set of results [v, err, rest, cf, dec] the reader's
\* behaviour allows
ReadBody(ct, s, kind, v) ==
    IF v.kind = "nil"
    THEN {[v |-> v, err |-> NoErr, rest |-> s, cf |-> 0, dec |-> "none"]}
    ELSE { IF d.err # NoErr
           THEN [v |-> v, err |-> d.err, rest |-> d.rest, cf |-> d.cf, dec |-> "none"]
           ELSE IF d.cf = 0
           THEN [v |-> v, err |-> NoErr, rest |-> d.rest, cf |-> d.cf, dec |-> "none"]
           ELSE LET u == Unmarshal(ct, d.msg, v)
                IN  [v |-> u.v, err |-> u.err, rest |-> d.rest, cf |-> d.cf, dec |-> u.dec]
         : d \in decode(s, kind) }

\* WriteRequest that puts the '.' and the '/' of :path in each other's place
WriteRequestSeparatorsSwapped(m, ct, parts) ==
    LET m1 == SetHeader(m, ":method", "POST")
        m2 == SetHeader(m1, ":path",
                        <<"/">> \o m.Target \o <<"/">> \o parts[1] \o <<".">> \o parts[2])
        m3 == SetHeader(m2, ":proto", "HTTP/2.0")
        m4 == SetHeader(m3, "te", "trailers")
        m5 == SetHeader(m4, "user-agent", "grpc-go/1.0.0")
        m6 == SetHeader(m5, ":authority", m.Target)
    IN  SetHeader(m6, "content-type", ct)

\* the header assignments of Write for a Request whose Endpoint splits into parts
WriteRequest(m, ct, parts) ==
    LET m1 == SetHeader(m, ":method", "POST")
        m2 == SetHeader(m1, ":path", SprintfPath(m.Target, parts[1], parts[2]))
        m3 == SetHeader(m2, ":proto", "HTTP/2.0")
        m4 == SetHeader(m3, "te", "trailers")
        m5 == SetHeader(m4, "user-agent", "grpc-go/1.0.0")
        m6 == SetHeader(m5, ":authority", m.Target)
    IN  SetHeader(m6, "content-type", ct)

\* WriteResponse that leaves the message's content-type header as it came
WriteResponseNoContentType(m, ct) ==
    LET m1 == SetHeader(m, "Trailer", "grpc-status")
        m3 == SetHeader(m1, ":status", "200")
    IN  SetHeader(m3, "grpc-status", "0")

\* the header assignments of Write for a Response
WriteResponse(m, ct) ==
    LET m1 == SetHeader(m, "Trailer", "grpc-status")
        m2 == SetHeader(m1, "content-type", ct)
        m3 == SetHeader(m2, ":status", "200")
    IN  SetHeader(m3, "grpc-status", "0")

\* WriteError without the end-of-stream case: every error is status 13
WriteErrorNoEOS(m) ==
    LET m1 == SetHeader(m, "Trailer", "grpc-status, grpc-message")
    IN  SetHeader(SetHeader(m1, "grpc-message", m.Error), "grpc-status", "13")

\* WriteError that reports every error other than "EOS" as status 2 (unknown)
WriteErrorStatusUnknown(m) ==
    LET m1 == SetHeader(m, "Trailer", "grpc-status, grpc-message")
    IN  IF m.Error = "EOS"
        THEN SetHeader(m1, "grpc-status", "0")
        ELSE SetHeader(SetHeader(m1, "grpc-message", m.Error), "grpc-status", "2")

\* the header assignments of Write for an Error
WriteError(m) ==
    LET m1 == SetHeader(m, "Trailer", "grpc-status, grpc-message")
    IN  IF m.Error = "EOS"
        THEN SetHeader(m1, "grpc-status", "0")
        ELSE SetHeader(SetHeader(m1, "grpc-message", m.Error), "grpc-status", "13")

\* WriteBody that returns the marshal error without touching the headers
WriteBodyNoStatus(m, ct, v) ==
    LET r == Marshal(ct, v)
    IN  IF r.err # NoErr
        THEN [m |-> m, ct |-> ct, err |-> r.err, wrote |-> << >>, marshaled |-> TRUE,
              enc |-> r.enc]
        ELSE IF Len(r.buf) = 0
        THEN [m |-> m, ct |-> ct, err |-> NoErr, wrote |-> << >>,
              marshaled |-> TRUE, enc |-> r.enc]
        ELSE [m |-> [m EXCEPT !.Body = r.buf], ct |-> ct, err |-> NoErr,
              wrote |-> encode(0, r.buf), marshaled |-> TRUE, enc |-> r.enc]

\* WriteBody that frames an empty body too
WriteBodyFrameEmpty(m, ct, v) ==
    LET r == Marshal(ct, v)
    IN  IF r.err # NoErr
        THEN [m |-> SetHeader(SetHeader(m, "grpc-status", "8"), "grpc-message", r.err),
              ct |-> ct, err |-> r.err, wrote |-> << >>, marshaled |-> TRUE, enc |-> r.enc]
        ELSE [m |-> [m EXCEPT !.Body = r.buf], ct |-> ct, err |-> NoErr,
              wrote |-> encode(0, r.buf), marshaled |-> TRUE, enc |-> r.enc]

\* the tail of Write: marshal v, then frame the body
WriteBody(m, ct, v) ==
    LET r == Marshal(ct, v)
    IN  IF r.err # NoErr
        THEN [m |-> SetHeader(SetHeader(m, "grpc-status", "8"), "grpc-message", r.err),
              ct |-> ct, err |-> r.err, wrote |-> << >>, marshaled |-> TRUE, enc |-> r.enc]
        ELSE IF Len(r.buf) = 0
        THEN [m |-> m, ct |-> ct, err |-> NoErr, wrote |-> << >>,
              marshaled |-> TRUE, enc |-> r.enc]
        ELSE [m |-> [m EXCEPT !.Body = r.buf], ct |-> ct, err |-> NoErr,
              wrote |-> encode(0, r.buf), marshaled |-> TRUE, enc |-> r.enc]

\* Write(conn, m, v): [m, ct, err, wrote, marshaled, enc]: the message and the
\* content-type after the call, the error returned (Panic when the call
\* panics), the bytes put on conn, and whether Marshal was called
Write(ct0, m, v) ==
    LET hct == m.Header["content-type"]
        ct == IF hct # "" THEN hct ELSE ct0
    IN  IF m.Type = "Request"
        THEN LET parts == Split(m.Endpoint, ".")
             IN  IF Len(parts) < 2
                 THEN [m |-> SetHeader(m, ":method", "POST"), ct |-> ct, err |-> Panic,
                       wrote |-> << >>, marshaled |-> FALSE, enc |-> "none"]
                 ELSE WriteBody(WriteRequest(m, ct, parts), ct, v)
        ELSE IF m.Type = "Response"
        THEN WriteBody(WriteResponse(m, ct), ct, v)
        ELSE IF m.Type = "Error"
        THEN [m |-> WriteError(m), ct |-> ct, err |-> NoErr, wrote |-> << >>,
              marshaled |-> FALSE, enc |-> "none"]
        ELSE WriteBody(m, ct, v)

\* NewCodec(): the content-type of a new codec
NewCodecContentType == "application/grpc"

-----------------------------------------------------------------------------
(* Inputs of the model *)

\* compression flags a frame carries
Flags == {0, 1, 127}

\* payloads a caller frames
Payloads == SeqsUpTo({1, 2}, MaxLen)

\* lengths a peer declares in a frame header: up to one past the limit, and
\* lengths whose low bytes are zero
Declared == (0..MaxLen) \cup {256, 65536, 2130706432}

\* the payload bytes a peer sends after a header: 1, 2, 1, ...
PeerPayload(k) == [i \in 1..k |-> 2 - (i % 2)]

\* what a peer puts on the stream: a frame header and payload bytes that may
\* or may not match the declared length, cut anywhere
PeerBytes ==
    { Take(<<cf>> \o PutUint32(n) \o PeerPayload(MaxLen), k) :
        cf \in Flags, n \in Declared, k \in 1..MaxConn }

\* targets of ReadBody and Unmarshal, values of Marshal and Write
Values ==
    { NilValue, Frame(<< >>), Frame(<<2, 1>>),
      ProtoMsg(0, TRUE), ProtoMsg(1, TRUE), ProtoMsg(1, FALSE),
      Other(1, TRUE), Struct(Frame(<<1>>)) }

ContentTypes ==
    {"application/grpc", "application/grpc+proto", "application/grpc+json", "text/plain"}

\* a codec.Message
Message(type, target, endpoint, error, header) ==
    [Header |-> header, Type |-> type, Target |-> target, Endpoint |-> endpoint,
     Error |-> error, Body |-> << >>]

-----------------------------------------------------------------------------
(* Actions: one call on the codec each *)

\* a message with no header, as codec.NewMessage makes it
EmptyMessage == Message("Request", << >>, << >>, "", NoHeader)

\* a new codec on an empty stream; the caller holds an empty message
InitFrame ==
    /\ ContentType = NewCodecContentType
    /\ conn = << >>
    /\ reader \in {"buffer", "split"}
    /\ msg = EmptyMessage
    /\ call = [op |-> "NewCodec"]
    /\ callers = NoCallers

\* the peer puts bytes on a drained stream
PeerSend ==
    /\ conn = << >>
    /\ \E bs \in PeerBytes :
         /\ conn' = bs
         /\ call' = [op |-> "PeerSend", bytes |-> bs]
    /\ UNCHANGED <<ContentType, reader, msg, callers>>

\* c.encode(cf, buf, conn)
DoEncode ==
    \E cf \in Flags, buf \in Payloads :
       /\ Len(conn) + 5 + Len(buf) <= MaxConn
       /\ conn' = conn \o encode(cf, buf)
       /\ call' = [op |-> "encode", cf |-> cf, buf |-> buf, pre |-> conn,
                   err |-> NoErr]
       /\ UNCHANGED <<ContentType, reader, msg, callers>>

\* c.decode(conn)
DoDecode ==
    \E d \in decode(conn, reader) :
       /\ conn' = d.rest
       /\ call' = [op |-> "decode", pre |-> conn, cf |-> d.cf, msg |-> d.msg,
                   err |-> d.err]
       /\ UNCHANGED <<ContentType, reader, msg, callers>>

\* c.ReadBody(conn, v)
DoReadBody ==
    \E v \in Values :
       \E r \in ReadBody(ContentType, conn, reader, v) :
          /\ conn' = r.rest
          /\ call' = [op |-> "ReadBody", pre |-> conn, v0 |-> v, v |-> r.v,
                      cf |-> r.cf, err |-> r.err, dec |-> r.dec]
          /\ UNCHANGED <<ContentType, reader, msg, callers>>

NextFrame == PeerSend \/ DoEncode \/ DoDecode \/ DoReadBody

SpecFrame == InitFrame /\ [][NextFrame]_vars

-----------------------------------------------------------------------------
(* The header translator on its own: ReadHeader on every path *)

\* longest :path the caller's message carries
MaxPath == 7

\* the characters of routing strings: the two separators and two letters
Chars == {"/", ".", "a", "b"}

Paths == SeqsUpTo(Chars, MaxPath)

\* messages a transport hands to ReadHeader: any :path, with or without a
\* content-type, the fallback headers set, Target and Endpoint already filled
HeaderMessages ==
    { Message("Request", <<"b">>, <<"b", ".", "b">>, "",
              [NoHeader EXCEPT ![":path"] = path,
                               !["content-type"] = hct,
                               !["Micro-Service"] = <<"a">>,
                               !["Micro-Endpoint"] = <<"a", ".", "b">>]) :
        path \in Paths, hct \in {"", "application/grpc+json"} }

InitHeader ==
    /\ ContentType = NewCodecContentType
    /\ conn = << >>
    /\ reader = "buffer"
    /\ msg \in HeaderMessages
    /\ call = [op |-> "NewCodec"]
    /\ callers = NoCallers

\* c.ReadHeader(conn, msg, t)
DoReadHeader ==
    LET r == ReadHeader(ContentType, msg)
    IN  /\ ContentType' = r.ct
        /\ msg' = r.m
        /\ call' = [op |-> "ReadHeader", m0 |-> msg, ct0 |-> ContentType,
                    err |-> r.err]
        /\ UNCHANGED <<conn, reader, callers>>

NextHeader == DoReadHeader

SpecHeader == InitHeader /\ [][NextHeader]_vars

-----------------------------------------------------------------------------
(* The codec facade: its five methods on one codec, one message, one stream *)

\* messages a caller hands to Write (a request, a response, an error, an
\* event) and messages a transport hands to ReadHeader (a :path to parse),
\* each with or without a content-type header
FacadeMessages ==
    { Message(t.type, t.target, t.endpoint, t.error,
              [NoHeader EXCEPT !["content-type"] = hct, ![":path"] = t.path]) :
        t \in { [type |-> "Request", target |-> tg, endpoint |-> ep, error |-> "",
                 path |-> << >>] :
                  tg \in {<< >>, <<"a", ".", "b">>},
                  ep \in {<< >>, <<"F">>, <<"F", ".", "B">>, <<"F", ".", "B", ".", "C">>} }
           \cup { [type |-> "Error", target |-> << >>, endpoint |-> << >>, error |-> e,
                   path |-> << >>] :
                  e \in {"EOS", "boom", ""} }
           \cup { [type |-> ty, target |-> << >>, endpoint |-> << >>, error |-> "",
                   path |-> << >>] :
                  ty \in {"Response", "Event"} }
           \cup { [type |-> "Request", target |-> << >>, endpoint |-> << >>, error |-> "",
                   path |-> path] :
                  path \in {<<"/", "a", ".", "F", "/", "B">>, <<"/", "a">>} },
        hct \in {""} \cup ContentTypes }

\* byte slices a caller hands to Unmarshal
Bodies == {<< >>, <<1>>, <<123, 1>>}

Init ==
    /\ ContentType = NewCodecContentType
    /\ conn = << >>
    /\ reader = "buffer"
    /\ msg \in FacadeMessages
    /\ call = [op |-> "NewCodec"]
    /\ callers = NoCallers

\* c.Write(conn, msg, v)
DoWrite ==
    \E v \in Values :
       LET r == Write(ContentType, msg, v)
       IN  /\ Len(conn) + Len(r.wrote) <= MaxConn
           /\ ContentType' = r.ct
           /\ conn' = conn \o r.wrote
           /\ msg' = r.m
           /\ call' = [op |-> "Write", m0 |-> msg, ct0 |-> ContentType, v0 |-> v,
                       err |-> r.err, wrote |-> r.wrote, marshaled |-> r.marshaled,
                       enc |-> r.enc]
           /\ UNCHANGED <<reader, callers>>

\* c.Marshal(v)
DoMarshal ==
    \E v \in Values :
       LET r == Marshal(ContentType, v)
       IN  /\ call' = [op |-> "Marshal", v0 |-> v, buf |-> r.buf, err |-> r.err,
                       enc |-> r.enc]
           /\ UNCHANGED <<ContentType, conn, reader, msg, callers>>

\* c.Unmarshal(d, v)
DoUnmarshal ==
    \E d \in Bodies, v \in Values :
       LET r == Unmarshal(ContentType, d, v)
       IN  /\ call' = [op |-> "Unmarshal", d |-> d, v0 |-> v, v |-> r.v,
                       err |-> r.err, dec |-> r.dec]
           /\ UNCHANGED <<ContentType, conn, reader, msg, callers>>

Next == DoReadHeader \/ DoWrite \/ DoMarshal \/ DoUnmarshal \/ DoReadBody

Spec == Init /\ [][Next]_vars

-----------------------------------------------------------------------------
(* A session: one codec that is handed one message after another *)

\* messages of a session: an outbound request, a response, an error, an
\* inbound request with a well-formed and with a malformed :path, each with
\* no content-type header or with any content-type token
SessionMessages ==
    { Message(t.type, t.target, t.endpoint, t.error,
              [NoHeader EXCEPT !["content-type"] = hct, ![":path"] = t.path]) :
        t \in { [type |-> "Request", target |-> <<"a">>, endpoint |-> <<"F", ".", "B">>,
                 error |-> "", path |-> << >>],
                [type |-> "Response", target |-> << >>, endpoint |-> << >>,
                 error |-> "", path |-> << >>],
                [type |-> "Error", target |-> << >>, endpoint |-> << >>,
                 error |-> "boom", path |-> << >>],
                [type |-> "Request", target |-> << >>, endpoint |-> << >>,
                 error |-> "", path |-> <<"/", "a", ".", "F", "/", "B">>],
                [type |-> "Request", target |-> << >>, endpoint |-> << >>,
                 error |-> "", path |-> <<"/", "a">>] },
        hct \in {""} \cup ContentTypes }

InitSession ==
    /\ ContentType = NewCodecContentType
    /\ conn = << >>
    /\ reader = "buffer"
    /\ msg \in SessionMessages
    /\ call = [op |-> "NewCodec"]
    /\ callers = NoCallers

\* the caller passes another message to the next ReadHeader or Write
NewMessage ==
    /\ msg' \in SessionMessages
    /\ call' = [op |-> "NewMessage"]
    /\ UNCHANGED <<ContentType, conn, reader, callers>>

NextSession ==
    NewMessage \/ DoReadHeader \/ DoWrite \/ DoMarshal \/ DoUnmarshal \/ DoReadBody

SpecSession == InitSession /\ [][NextSession]_vars

-----------------------------------------------------------------------------
(* Two goroutines that call the codec without coordination.  The codec has  *)
(* no lock and no atomic: a step is one access to c.ContentType, the write  *)
(* of ReadHeader and Write or one of the two reads of Marshal and Unmarshal *)

\* Marshal(v) when its first look at c.ContentType (the == test) gives ct1
\* and its second (the switch) gives ct2
MarshalReads(ct1, ct2, v0) ==
    IF v0.kind = "nil" THEN [buf |-> << >>, err |-> NoErr, enc |-> "none"]
    ELSE LET v == StructFieldByTag(v0)
         IN  IF v.kind = "frame" THEN [buf |-> v.Data, err |-> NoErr, enc |-> "none"]
             ELSE IF ct1 = "application/grpc+json" THEN jsonMarshal(v)
             ELSE IF v.kind # "proto"
             THEN [buf |-> << >>, err |-> ErrInvalidMessage, enc |-> "none"]
             ELSE IF ct2 = "application/grpc+json" THEN jsonpbMarshal(v)
             ELSE IF ct2 \in {"application/grpc+proto", "application/grpc"}
             THEN protoMarshal(v)
             ELSE [buf |-> << >>, err |-> ErrUnknownContentType, enc |-> "none"]

\* Unmarshal(d, v) when its first look at c.ContentType gives ct1 and its
\* second gives ct2
UnmarshalReads(ct1, ct2, d, v0) ==
    IF v0.kind = "nil" \/ Len(d) = 0 THEN [v |-> v0, err |-> NoErr, dec |-> "none"]
    ELSE LET v == StructFieldByTag(v0)
             r == IF v.kind = "frame"
                  THEN [v |-> [v EXCEPT !.Data = d], err |-> NoErr, dec |-> "none"]
                  ELSE IF ct1 = "application/grpc+json" THEN jsonUnmarshal(d, v)
                  ELSE IF v.kind # "proto"
                  THEN [v |-> v, err |-> ErrInvalidMessage, dec |-> "none"]
                  ELSE IF ct2 = "application/grpc+json" THEN jsonpbUnmarshal(d, v)
                  ELSE IF ct2 \in {"application/grpc+proto", "application/grpc"}
                  THEN protoUnmarshal(d, v)
                  ELSE [v |-> v, err |-> ErrInvalidMessage, dec |-> "none"]
         IN  [r EXCEPT !.v = Unflatten(v0, r.v)]

\* ReadBody(conn, v) after decode returned [cf, msg, err]
ReadBodyReads(ct1, ct2, d, v) ==
    IF v.kind = "nil" \/ d.err # NoErr
    THEN [v |-> v, err |-> d.err, dec |-> "none"]
    ELSE IF d.cf = 0
    THEN [v |-> v, err |-> NoErr, dec |-> "none"]
    ELSE UnmarshalReads(ct1, ct2, d.msg, v)

Callers == {"A", "B"}

OtherCaller(c) == IF c = "A" THEN "B" ELSE "A"

\* the content-types the callers' messages carry
RaceContentTypes == {"application/grpc+proto", "application/grpc+json", "text/plain"}

\* the operations a caller makes after its ReadHeader or Write
RaceOps == {"Marshal", "Unmarshal", "ReadBody"}

\* values and targets of those operations
RaceValues == {ProtoMsg(1, TRUE), Other(1, TRUE), Frame(<<2, 1>>)}

\* the message of a caller's ReadHeader (an inbound request) or Write (a
\* response), carrying the caller's content-type
RaceMessage(kind, ct) ==
    IF kind = "ReadHeader"
    THEN Message("Request", << >>, << >>, "",
                 [NoHeader EXCEPT !["content-type"] = ct,
                                  ![":path"] = <<"/", "a", ".", "F", "/", "B">>])
    ELSE Message("Response", << >>, << >>, "",
                 [NoHeader EXCEPT !["content-type"] = ct])

\* the content-type field of the codec instance caller c uses: the one codec
\* when the callers share it, c's own otherwise
CodecOf(c) == IF callers.shared THEN ContentType ELSE callers.codec[c]

\* codecs from NewCodec, one shared by the callers or one each; the stream
\* holds two frames with compression flag 1
InitRace ==
    /\ ContentType = NewCodecContentType
    /\ conn = encode(1, <<1>>) \o encode(1, <<123, 1>>)
    /\ reader = "buffer"
    /\ msg = EmptyMessage
    /\ call = [op |-> "NewCodec"]
    /\ \E shared \in BOOLEAN, own \in [Callers -> RaceContentTypes] :
         callers = [shared |-> shared,
                    own |-> own,
                    codec |-> [c \in Callers |-> NewCodecContentType],
                    pc |-> [c \in Callers |-> "start"],
                    order |-> << >>,
                    pending |-> [c \in Callers |-> [op |-> "none"]]]

\* caller c calls ReadHeader, or Write with a nil value: the assignment to
\* c.ContentType
RaceHeader(c) ==
    /\ callers.pc[c] = "start"
    /\ \E kind \in {"ReadHeader", "Write"} :
         LET m == RaceMessage(kind, callers.own[c])
             r == IF kind = "ReadHeader"
                  THEN ReadHeader(CodecOf(c), m)
                  ELSE Write(CodecOf(c), m, NilValue)
         IN  /\ msg' = r.m
             /\ ContentType' = IF callers.shared THEN r.ct ELSE ContentType
             /\ callers' = [callers EXCEPT
                              !.pc[c] = "header",
                              !.order = Append(@, c),
                              !.codec[c] = IF callers.shared THEN @ ELSE r.ct]
             /\ call' = [op |-> kind, caller |-> c, m0 |-> m, ct0 |-> CodecOf(c),
                         err |-> r.err]
    /\ UNCHANGED <<conn, reader>>

\* caller c enters Marshal, Unmarshal or ReadBody and runs it up to the first
\* read of c.ContentType (ReadBody has decoded a frame by then)
RaceBegin(c) ==
    /\ callers.pc[c] = "header"
    /\ \E op \in RaceOps, v \in RaceValues, b \in Bodies :
         \E d \in IF op = "ReadBody" THEN decode(conn, reader)
                  ELSE {[cf |-> 1, msg |-> IF op = "Unmarshal" THEN b ELSE << >>,
                         err |-> NoErr, rest |-> conn]} :
            /\ op = "Unmarshal" \/ b = << >>
            /\ conn' = d.rest
            /\ callers' = [callers EXCEPT
                             !.pc[c] = "op",
                             !.pending[c] = [op |-> op, v0 |-> v,
                                             d |-> [cf |-> d.cf, msg |-> d.msg, err |-> d.err],
                                             pre |-> conn, ct1 |-> CodecOf(c),
                                             began |-> callers.order]]
    /\ UNCHANGED <<ContentType, reader, msg, call>>

\* caller c's operation reads c.ContentType for the second time and returns
RaceEnd(c) ==
    /\ callers.pc[c] = "op"
    /\ LET p == callers.pending[c]
           ct2 == CodecOf(c)
       IN  /\ call' = [op |-> p.op, caller |-> c, v0 |-> p.v0, d |-> p.d, pre |-> p.pre,
                       began |-> p.began, ct1 |-> p.ct1, ct2 |-> ct2,
                       res |-> IF p.op = "Marshal" THEN MarshalReads(p.ct1, ct2, p.v0)
                               ELSE IF p.op = "Unmarshal"
                               THEN UnmarshalReads(p.ct1, ct2, p.d.msg, p.v0)
                               ELSE ReadBodyReads(p.ct1, ct2, p.d, p.v0)]
           /\ callers' = [callers EXCEPT !.pc[c] = "done",
                                         !.pending[c] = [op |-> "none"]]
    /\ UNCHANGED <<ContentType, conn, reader, msg>>

NextRace == \E c \in Callers : RaceHeader(c) \/ RaceBegin(c) \/ RaceEnd(c)

SpecRace == InitRace /\ [][NextRace]_vars

-----------------------------------------------------------------------------
(* Routing across the wire: Write of a Request, then ReadHeader by the peer *)

\* longest Target and longest Endpoint of an outbound request
MaxTarget == 3

MaxEndpoint == 4

\* the characters of outbound routing strings: the two separators and a letter
RouteChars == {"/", ".", "a"}

\* outbound requests: any Target and any Endpoint, no headers yet
RouteMessages ==
    { Message("Request", target, endpoint, "", NoHeader) :
        target \in SeqsUpTo(RouteChars, MaxTarget),
        endpoint \in SeqsUpTo(RouteChars, MaxEndpoint) }

InitRoute ==
    /\ ContentType = NewCodecContentType
    /\ conn = << >>
    /\ reader = "buffer"
    /\ msg \in RouteMessages
    /\ call = [op |-> "NewCodec"]
    /\ callers = NoCallers

\* c.Write(conn, msg, nil): the headers of the request and no body
DoWriteHeaders ==
    /\ call.op = "NewCodec"
    /\ LET r == Write(ContentType, msg, NilValue)
       IN  /\ ContentType' = r.ct
           /\ conn' = conn \o r.wrote
           /\ msg' = r.m
           /\ call' = [op |-> "Write", m0 |-> msg, ct0 |-> ContentType, v0 |-> NilValue,
                       err |-> r.err, wrote |-> r.wrote, marshaled |-> r.marshaled,
                       enc |-> r.enc]
    /\ UNCHANGED <<reader, callers>>

\* the peer's c.ReadHeader(conn, m, t) on a fresh message m that carries the
\* headers Write produced; sent is the message Write was given
DoReadWritten ==
    /\ call.op = "Write"
    /\ LET fresh == Message("Request", << >>, << >>, "", msg.Header)
           r == ReadHeader(ContentType, fresh)
       IN  /\ ContentType' = r.ct
           /\ msg' = r.m
           /\ call' = [op |-> "ReadHeader", m0 |-> fresh, ct0 |-> ContentType,
                       err |-> r.err, sent |-> call.m0]
    /\ UNCHANGED <<conn, reader, callers>>

NextRoute == DoWriteHeaders \/ DoReadWritten

SpecRoute == InitRoute /\ [][NextRoute]_vars

-----------------------------------------------------------------------------
(* Frame codec and ReadBody: claims C1-C4, checked under SpecFrame *)

\* the stream the last call read was a byte buffer holding exactly the frame
\* that encode(cf, p) writes
BufferHeld(cf, p) == reader = "buffer" /\ call.pre = encode(cf, p)

\* C1: frame round trip.  For every flag cf and every payload p no longer than
\* the maximum message size, decode on a byte buffer that holds exactly the
\* bytes of encode(cf, p) returns cf, p and no error.
C1_RoundTrip ==
    call.op = "decode" =>
        \A cf \in Flags, p \in Payloads :
            (Len(p) <= DefaultMaxMsgSize /\ BufferHeld(cf, p)) =>
                /\ call.cf = cf
                /\ call.msg = p
                /\ call.err = NoErr

\* a frame with a payload of the maximum size was decoded from a buffer
C1_Witness ==
    /\ call.op = "decode"
    /\ \E p \in Payloads :
         /\ Len(p) = DefaultMaxMsgSize
         /\ BufferHeld(127, p)
         /\ call.msg = p
         /\ call.cf = 127

\* C2: ReadBody delivers the payload.  For a passthrough Frame target and a
\* byte buffer holding one complete frame with any flag and a non-empty
\* payload p within the limit, ReadBody returns no error and the target holds p.
C2_ReadBodyDelivers ==
    (call.op = "ReadBody" /\ call.v0.kind = "frame") =>
        \A cf \in Flags, p \in Payloads :
            (Len(p) > 0 /\ Len(p) <= DefaultMaxMsgSize /\ BufferHeld(cf, p)) =>
                /\ call.err = NoErr
                /\ call.v.Data = p

\* C3: clean end of stream.  decode on a stream with no bytes returns flag 0,
\* an empty payload and no error; ReadBody on such a stream returns no error
\* and leaves the target as it was.
C3_CleanEndOfStream ==
    /\ (call.op = "decode" /\ call.pre = << >>) =>
          (call.cf = 0 /\ call.msg = << >> /\ call.err = NoErr)
    /\ (call.op = "ReadBody" /\ call.pre = << >>) =>
          (call.err = NoErr /\ call.v = call.v0)

\* ReadBody was called with a Frame that holds data, on an exhausted stream
C3_Witness ==
    /\ call.op = "ReadBody"
    /\ call.pre = << >>
    /\ call.v0 = Frame(<<2, 1>>)
    /\ call.v = call.v0

\* the stream the last call read began with a complete header declaring more
\* than the maximum message size
HeaderOverLimit ==
    /\ Len(call.pre) >= 5
    /\ Uint32(SubSeq(call.pre, 2, 5)) > DefaultMaxMsgSize

\* C4: size limit.  When the length in the header of a buffered frame exceeds
\* the maximum message size, decode returns a size-exceeded error and has
\* consumed the 5 header bytes and no payload byte.
C4_SizeLimit ==
    (call.op = "decode" /\ reader = "buffer" /\ HeaderOverLimit) =>
        /\ call.err \in {ErrTooLarge, ErrTooLargeMachine}
        /\ call.msg = << >>
        /\ conn = Drop(call.pre, 5)

\* decode refused a frame one byte over the limit whose payload is in the stream
C4_Witness ==
    /\ call.op = "decode"
    /\ reader = "buffer"
    /\ HeaderOverLimit
    /\ Uint32(SubSeq(call.pre, 2, 5)) = DefaultMaxMsgSize + 1
    /\ Len(call.pre) = 5 + DefaultMaxMsgSize + 1
    /\ Len(conn) = DefaultMaxMsgSize + 1

-----------------------------------------------------------------------------
(* ReadHeader: claims C5 and C6, checked under SpecHeader *)

\* the places of the character c in s
Places(s, c) == {i \in 1..Len(s) : s[i] = c}

\* the greatest element of a non-empty set of numbers
Greatest(S) == CHOOSE x \in S : \A y \in S : y <= x

\* the :path the last ReadHeader call was given
GivenPath == call.m0.Header[":path"]

\* the last call was ReadHeader on a path that starts with '/' and has n
\* segments when cut at every '/'
ReadPath(n) ==
    /\ call.op = "ReadHeader"
    /\ Len(GivenPath) > 0
    /\ GivenPath[1] = "/"
    /\ Cardinality(Places(GivenPath, "/")) + 1 = n

\* C5: ReadHeader path parsing.  For a :path "/" service "/" method, ReadHeader
\* returns no error, Endpoint is the part of service after its last '.' (all of
\* it when it has none), a '.', and method; Target is the part of service
\* before its last '.' (empty when it has none).
C5_PathParsing ==
    ReadPath(3) =>
        LET cut == Greatest(Places(GivenPath, "/"))
            service == SubSeq(GivenPath, 2, cut - 1)
            method == SubSeq(GivenPath, cut + 1, Len(GivenPath))
            dots == Places(service, ".")
            dot == IF dots = {} THEN 0 ELSE Greatest(dots)
        IN  /\ call.err = NoErr
            /\ msg.Endpoint = SubSeq(service, dot + 1, Len(service)) \o <<".">> \o method
            /\ msg.Target = SubSeq(service, 1, dot - 1)

\* ReadHeader parsed a path whose service has three components: the Target
\* is the first two, rejoined
C5_Witness ==
    /\ ReadPath(3)
    /\ GivenPath = <<"/", "a", ".", "b", ".", "a", "/">>
    /\ msg.Target = <<"a", ".", "b">>
    /\ msg.Endpoint = <<"a", ".">>

\* C6: ReadHeader path error.  For a :path that starts with '/' and has fewer
\* or more than three segments, ReadHeader returns the unknown-request-path
\* error and leaves Target and Endpoint as they were.
C6_PathError ==
    \A n \in (1..(MaxPath + 1)) \ {3} :
        ReadPath(n) =>
            /\ call.err = ErrUnknownPath
            /\ msg.Target = call.m0.Target
            /\ msg.Endpoint = call.m0.Endpoint

\* ReadHeader refused a path of four segments given with filled Target and
\* Endpoint
C6_Witness ==
    /\ ReadPath(4)
    /\ GivenPath = <<"/", "a", "/", "b", "/", "a">>
    /\ call.err = ErrUnknownPath
    /\ msg.Target = <<"b">>
    /\ msg.Endpoint = <<"b", ".", "b">>

-----------------------------------------------------------------------------
(* Write: claims C7-C10, checked under Spec *)

\* the last call was Write on a message of the given kind
Wrote(type) == call.op = "Write" /\ call.m0.Type = type

\* the call put nothing on the stream and did not call Marshal
NoBody == call.wrote = << >> /\ ~call.marshaled

\* C7: Write of an Error message with error text "EOS" sets grpc-status to
\* "0", returns no error, writes no byte and does not marshal the value,
\* whatever the value and the active content-type.
C7_WriteEOS ==
    (Wrote("Error") /\ call.m0.Error = "EOS") =>
        /\ msg.Header["grpc-status"] = "0"
        /\ call.err = NoErr
        /\ NoBody

\* Write ended a stream under an unrecognized content-type, with a value the
\* encoders refuse
C7_Witness ==
    /\ Wrote("Error")
    /\ call.m0.Error = "EOS"
    /\ ContentType = "text/plain"
    /\ call.v0 = ProtoMsg(1, FALSE)
    /\ msg.Header["grpc-status"] = "0"

\* C8: Write of an Error message with any error text e other than "EOS" sets
\* grpc-status to "13" and grpc-message to e, returns no error, writes no byte
\* and does not marshal the value.
C8_WriteError ==
    (Wrote("Error") /\ call.m0.Error # "EOS") =>
        /\ msg.Header["grpc-status"] = "13"
        /\ msg.Header["grpc-message"] = call.m0.Error
        /\ call.err = NoErr
        /\ NoBody

\* Write reported the error "boom" and was given a value that would make a body
C8_Witness ==
    /\ Wrote("Error")
    /\ call.m0.Error = "boom"
    /\ call.v0 = Frame(<<2, 1>>)
    /\ msg.Header["grpc-message"] = "boom"
    /\ msg.Header["grpc-status"] = "13"

\* C9: Write of a Request with Target T and an Endpoint of exactly two
\* dot-separated parts, suffix "." method, sets :path to "/" T "." suffix "/"
\* method, :method to POST, :authority to T and content-type to the codec's
\* active content-type.
C9_WriteRequest ==
    (Wrote("Request") /\ Cardinality(Places(call.m0.Endpoint, ".")) = 1) =>
        LET T == call.m0.Target
            dot == Greatest(Places(call.m0.Endpoint, "."))
            suffix == SubSeq(call.m0.Endpoint, 1, dot - 1)
            method == SubSeq(call.m0.Endpoint, dot + 1, Len(call.m0.Endpoint))
        IN  /\ msg.Header[":path"] = <<"/">> \o T \o <<".">> \o suffix \o <<"/">> \o method
            /\ msg.Header[":method"] = "POST"
            /\ msg.Header[":authority"] = T
            /\ msg.Header["content-type"] = ContentType

\* Write of Target a.b and Endpoint F.B, with a content-type header, made the
\* path /a.b.F/B
C9_Witness ==
    /\ Wrote("Request")
    /\ call.m0.Target = <<"a", ".", "b">>
    /\ call.m0.Endpoint = <<"F", ".", "B">>
    /\ call.m0.Header["content-type"] = "application/grpc+json"
    /\ msg.Header[":path"] = <<"/", "a", ".", "b", ".", "F", "/", "B">>
    /\ msg.Header["content-type"] = "application/grpc+json"

\* the last call was Write of a Request or a Response and its call of Marshal
\* failed
MarshalFailed ==
    /\ call.op = "Write"
    /\ call.m0.Type \in {"Request", "Response"}
    /\ call.marshaled
    /\ Marshal(ContentType, call.v0).err # NoErr

\* C10: Write-time marshal failure.  For a Request or a Response, when
\* marshaling the value fails Write returns that error, the headers have
\* grpc-status "8" and grpc-message equal to the error text, and no byte has
\* been written.
C10_MarshalFailure ==
    MarshalFailed =>
        /\ call.err = Marshal(ContentType, call.v0).err
        /\ msg.Header["grpc-status"] = "8"
        /\ msg.Header["grpc-message"] = call.err
        /\ call.wrote = << >>

\* Write of a Response failed to marshal under an unrecognized content-type:
\* the "0" set for the Response became "8"
C10_Witness ==
    /\ MarshalFailed
    /\ call.m0.Type = "Response"
    /\ call.v0 = ProtoMsg(1, TRUE)
    /\ call.err = ErrUnknownContentType
    /\ msg.Header["grpc-status"] = "8"
    /\ msg.Header[":status"] = "200"

-----------------------------------------------------------------------------
(* The codec's content-type: claim C11, checked under SpecSession *)

\* the content-type header of the message the step's call is given
GivenContentType == msg.Header["content-type"]

\* the step is a call of ReadHeader or of Write
HeaderCall == call'.op \in {"ReadHeader", "Write"}

\* C11: content-type state.  A new codec holds "application/grpc"; a call of
\* ReadHeader or Write whose message carries a non-empty content-type header
\* leaves the codec holding that header's value, whatever the call returns;
\* every other call (ReadHeader or Write without the header, Marshal,
\* Unmarshal, ReadBody) leaves the content-type as it was.  So after any
\* sequence of calls the content-type is the header of the most recent
\* ReadHeader or Write that carried one, or "application/grpc" if none did.
C11_ContentTypeState ==
    /\ ContentType = "application/grpc"
    /\ [][ IF HeaderCall /\ GivenContentType # ""
           THEN ContentType' = GivenContentType
           ELSE ContentType' = ContentType ]_vars

\* ReadHeader rejected the path of a message whose content-type header differs
\* from what the codec held, and the codec holds the header's value
C11_Witness ==
    /\ call.op = "ReadHeader"
    /\ call.err = ErrUnknownPath
    /\ call.ct0 = "application/grpc+proto"
    /\ call.m0.Header["content-type"] = "application/grpc+json"
    /\ ContentType = "application/grpc+json"

-----------------------------------------------------------------------------
(* Content marshaler: claims C12, C13 and C17, checked under Spec *)

\* the value the call went on with after the flatten lookup
Flattened == StructFieldByTag(call.v0)

\* C12: JSON transcoding.  Under "application/grpc+json" Marshal encodes a
\* protobuf message with the protobuf-to-JSON encoder and uses the generic
\* JSON encoder only for values that are not protobuf messages; Unmarshal
\* chooses its decoder the same way.
C12_JSONTranscoding ==
    (/\ ContentType = "application/grpc+json"
     /\ call.op \in {"Marshal", "Unmarshal"}
     /\ IF call.op = "Marshal" THEN call.enc # "none" ELSE call.dec # "none")
    => LET used == IF call.op = "Marshal" THEN call.enc ELSE call.dec
       IN  used = (IF Flattened.kind = "proto" THEN "jsonpb" ELSE "json")


\* the content-type tokens the marshaler knows
Recognized == {"application/grpc", "application/grpc+proto", "application/grpc+json"}

\* C13: unrecognized content-type.  Under a content-type that is none of the
\* three recognized tokens, Marshal of a non-nil value that is not a
\* passthrough Frame returns an error and no bytes, and Unmarshal of non-empty
\* bytes into a non-nil target that is not a passthrough Frame returns an
\* error and leaves the target as it was.  (The value is the one the codec
\* dispatches on, after the flatten lookup.)
C13_UnrecognizedContentType ==
    (/\ ContentType \notin Recognized
     /\ call.op \in {"Marshal", "Unmarshal"}
     /\ call.v0.kind # "nil"
     /\ Flattened.kind # "frame")
    => IF call.op = "Marshal"
       THEN call.err # NoErr /\ call.buf = << >>
       ELSE call.d # << >> => (call.err # NoErr /\ call.v = call.v0)

\* Marshal refused a well-formed protobuf message under an unrecognized
\* content-type
C13_Witness ==
    /\ ContentType \notin Recognized
    /\ call.op = "Marshal"
    /\ call.v0 = ProtoMsg(1, TRUE)
    /\ call.err = ErrUnknownContentType
    /\ call.buf = << >>

\* C17: passthrough bypass.  Under every content-type, recognized or not,
\* Marshal of a passthrough Frame returns the Frame's bytes and no error, and
\* Unmarshal of non-empty bytes d into a passthrough Frame stores exactly d
\* and returns no error; so unmarshaling what Marshal returned into a fresh
\* Frame gives a Frame with the same bytes.
C17_PassthroughBypass ==
    (call.op \in {"Marshal", "Unmarshal"} /\ Flattened.kind = "frame") =>
        IF call.op = "Marshal"
        THEN /\ call.buf = Flattened.Data
             /\ call.err = NoErr
             /\ LET u == Unmarshal(ContentType, call.buf, Frame(<< >>))
                IN  u.err = NoErr /\ u.v = Frame(Flattened.Data)
        ELSE call.d # << >> =>
                 /\ StructFieldByTag(call.v) = Frame(call.d)
                 /\ call.err = NoErr

\* under an unrecognized content-type Marshal returned the two bytes of a
\* Frame, which Unmarshal stores in a fresh Frame
C17_Witness ==
    /\ ContentType \notin Recognized
    /\ call.op = "Marshal"
    /\ call.v0 = Frame(<<2, 1>>)
    /\ call.buf = <<2, 1>>
    /\ Unmarshal(ContentType, call.buf, Frame(<< >>)).v = Frame(<<2, 1>>)

-----------------------------------------------------------------------------
(* Write of a Request or a Response: claims C14 and C16, checked under Spec *)

\* C14: Write of a Response sets Trailer to "grpc-status", :status to "200"
\* and content-type to the codec's content-type, and sets grpc-status to "0":
\* grpc-status is still "0" whenever the call returns no error (a marshal
\* failure is the only thing that replaces it).
C14_WriteResponse ==
    Wrote("Response") =>
        /\ msg.Header["Trailer"] = "grpc-status"
        /\ msg.Header[":status"] = "200"
        /\ msg.Header["content-type"] = ContentType
        /\ call.err = NoErr => msg.Header["grpc-status"] = "0"
        /\ msg.Header["grpc-status"] # "0" => MarshalFailed

\* Write of a Response that came without a content-type header framed a
\* protobuf message
C14_Witness ==
    /\ Wrote("Response")
    /\ call.m0.Header["content-type"] = ""
    /\ call.v0 = ProtoMsg(1, TRUE)
    /\ call.err = NoErr
    /\ call.wrote # << >>
    /\ msg.Header["grpc-status"] = "0"
    /\ msg.Header["content-type"] = "application/grpc"

-----------------------------------------------------------------------------
(* Truncated frames: claim C15, checked under SpecFrame *)

\* the length the header of stream s declares (s holds a whole header)
DeclaredLength(s) == Uint32(SubSeq(s, 2, 5))

\* stream s ends inside the header of a frame
HeaderCut(s) == Len(s) \in 1..4

\* stream s holds a whole header that declares a length above zero and within
\* the limit, and ends before the last payload byte
PayloadCut(s) ==
    /\ Len(s) >= 5
    /\ DeclaredLength(s) \in 1..DefaultMaxMsgSize
    /\ Len(s) < 5 + DeclaredLength(s)

\* C15: truncated frames never decode successfully.  When the stream ends
\* after 1 to 4 header bytes, or after a whole header that declares L > 0 but
\* before all L payload bytes, decode returns an error, whichever way the
\* reader splits the bytes: the unexpected-EOF error when the cut is in the
\* payload; a payload is never returned without an error.
C15_TruncatedFrame ==
    (call.op = "decode" /\ (HeaderCut(call.pre) \/ PayloadCut(call.pre))) =>
        /\ call.err # NoErr
        /\ PayloadCut(call.pre) => call.err = ErrUnexpectedEOF
        /\ call.msg = << >>


\* Write of a Request or a Response returned no error
WroteBody ==
    /\ call.op = "Write"
    /\ call.m0.Type \in {"Request", "Response"}
    /\ call.err = NoErr

\* the bytes Marshal gives for the value of the call
MarshaledBody == Marshal(ContentType, call.v0).buf

\* the call put on the stream one frame and nothing else: flag 0, the length
\* of the body in four bytes, high byte first, then the body
OneFrame ==
    /\ Len(call.wrote) = 5 + Len(MarshaledBody)
    /\ call.wrote[1] = 0
    /\ Uint32(SubSeq(call.wrote, 2, 5)) = Len(MarshaledBody)
    /\ SubSeq(call.wrote, 6, Len(call.wrote)) = MarshaledBody

\* C16 as stated: Write of a Request or a Response that returns no error
\* writes nothing exactly when the marshaled body is empty, which is when the
\* value is nil or an empty passthrough Frame, and otherwise one frame.
C16_WriteFramingNilOrEmptyFrame ==
    WroteBody =>
        IF call.v0.kind = "nil" \/ Flattened = Frame(<< >>)
        THEN call.wrote = << >>
        ELSE OneFrame /\ MarshaledBody # << >>

\* C16: Write framing.  Write of a Request or a Response that returns no error
\* writes nothing exactly when the marshaled body is empty (a nil value, an
\* empty passthrough Frame, or a value whose encoding has no bytes, such as a
\* protobuf message with no field set), and otherwise exactly one frame of
\* 5 + n bytes: flag 0, n in four bytes, high byte first, and the n marshaled
\* bytes; never a header without payload, never more than one frame.
C16_WriteFraming ==
    WroteBody =>
        IF MarshaledBody = << >>
        THEN call.wrote = << >>
        ELSE OneFrame

\* Write of a Response with a protobuf message that encodes to no bytes
\* returned no error and wrote nothing
C16_Witness ==
    /\ WroteBody
    /\ call.m0.Type = "Response"
    /\ call.v0 = ProtoMsg(0, TRUE)
    /\ call.enc = "proto"
    /\ call.wrote = << >>

-----------------------------------------------------------------------------
(* Callers that share a codec: claim C18, checked under SpecRace *)

\* what the operation of the last call returns on a codec whose content-type
\* is ct throughout
ResultsUnder(ct) ==
    IF call.op = "Marshal" THEN {Marshal(ct, call.v0)}
    ELSE IF call.op = "Unmarshal" THEN {Unmarshal(ct, call.d.msg, call.v0)}
    ELSE {[v |-> r.v, err |-> r.err, dec |-> r.dec] :
            r \in ReadBody(ct, call.pre, reader, call.v0)}

\* the last call read ct as the codec's content-type and returned what the
\* operation returns under ct
RanUnder(ct) ==
    /\ call.ct1 = ct
    /\ call.ct2 = ct
    /\ call.res \in ResultsUnder(ct)

\* C18: content-type race.  Two callers use codecs without coordination; each
\* calls ReadHeader or Write with a message carrying its own content-type and
\* then Marshal, Unmarshal or ReadBody.  On one shared codec, when the other
\* caller's ReadHeader or Write came between a caller's own and the start of
\* its operation, the operation runs under the other caller's content-type.
\* With one codec per caller every operation runs under its own caller's
\* content-type.
C18_ContentTypeRace ==
    call.op \in RaceOps =>
        LET c == call.caller
            o == OtherCaller(call.caller)
        IN  IF callers.shared
            THEN call.began = <<c, o>> => RanUnder(callers.own[o])
            ELSE RanUnder(callers.own[c])

\* on a shared codec A read a header carrying protobuf, B one carrying JSON,
\* and A's Marshal of a protobuf message then produced JSON
C18_Witness ==
    /\ callers.shared
    /\ call.op = "Marshal"
    /\ call.caller = "A"
    /\ call.began = <<"A", "B">>
    /\ callers.own["A"] = "application/grpc+proto"
    /\ callers.own["B"] = "application/grpc+json"
    /\ call.v0 = ProtoMsg(1, TRUE)
    /\ call.res.enc = "json"

-----------------------------------------------------------------------------
(* Round trips through the facade: claims C19 and C20 *)

\* the bytes Write puts on the stream for a Response whose value is a
\* passthrough Frame holding d
WrittenFrame(d) ==
    Write(ContentType, Message("Response", << >>, << >>, "", NoHeader), Frame(d)).wrote

\* C19: Write-then-ReadBody round trip.  When the stream holds what Write put
\* there for a passthrough Frame with non-empty bytes d within the size limit,
\* ReadBody with a fresh passthrough Frame, on a codec with the same
\* content-type, returns no error and leaves the Frame holding exactly d.
C19_WriteReadBody ==
    (call.op = "ReadBody" /\ call.v0 = Frame(<< >>)) =>
        \A d \in Payloads :
            (/\ d # << >>
             /\ Len(d) <= DefaultMaxMsgSize
             /\ call.pre = WrittenFrame(d))
            => call.err = NoErr /\ call.v = Frame(d)


\* the Target and the Endpoint of the request the peer's ReadHeader answers
SentTarget == call.sent.Target

SentEndpoint == call.sent.Endpoint

\* target has no '/'; endpoint is suffix '.' method with one '.', no '/', and
\* neither part empty
Routable(target, endpoint) ==
    /\ Places(target, "/") = {}
    /\ Places(endpoint, "/") = {}
    /\ Cardinality(Places(endpoint, ".")) = 1
    /\ endpoint[1] # "."
    /\ endpoint[Len(endpoint)] # "."

\* C20: routing round trip.  For a Target without '/' and an Endpoint
\* suffix.method with exactly one '.', no '/' and non-empty parts, ReadHeader
\* on a fresh message carrying the headers that Write of the Request produced
\* returns no error and gives the same Target and the same Endpoint.
C20_RoutingRoundTrip ==
    (call.op = "ReadHeader" /\ Routable(SentTarget, SentEndpoint)) =>
        /\ call.err = NoErr
        /\ msg.Target = SentTarget
        /\ msg.Endpoint = SentEndpoint

\* a request for target "a.a" and endpoint "a.a" crossed the wire
C20_Witness ==
    /\ call.op = "ReadHeader"
    /\ SentTarget = <<"a", ".", "a">>
    /\ SentEndpoint = <<"a", ".", "a">>
    /\ call.m0.Header[":path"] = <<"/", "a", ".", "a", ".", "a", "/", "a">>
    /\ call.m0.Target = << >>
    /\ msg.Target = <<"a", ".", "a">>
    /\ msg.Endpoint = <<"a", ".", "a">>

====
